---- MODULE Spec2Model ----
(***************************************************************************)
(* Model of the multi-method ranking and evaluation core of the legal      *)
(* document search system (similarity_methods.py, search_engine.py).       *)
(*                                                                         *)
(* Numbers are exact rationals <<n, d>> (d > 0, lowest terms); a square    *)
(* root is rounded down to 1/SqrtPrecision, as a float square root is      *)
(* rounded to its precision.  Strings are sequences of one-character       *)
(* strings, so that lower(), split() and the substring test are computed.  *)
(* Indices are 1-based; corpus order is index order.                       *)
(***************************************************************************)
EXTENDS Integers, Sequences, FiniteSets, TLC

VARIABLES documents, doc_embeddings, has_embeddings, is_initialized, config,
          call, out

vars == <<documents, doc_embeddings, has_embeddings, is_initialized, config,
          call, out>>

(***************************************************************************)
(* Bounds of the model.                                                    *)
(***************************************************************************)
MaxDocs == 3
MaxTopK == 4
MaxEntities == 2
SqrtPrecision == 10

(***************************************************************************)
(* Exact arithmetic standing for the float arithmetic of numpy.            *)
(***************************************************************************)
Abs(n) == IF n < 0 THEN -n ELSE n

Min(a, b) == IF a <= b THEN a ELSE b

Max(a, b) == IF a >= b THEN a ELSE b

RECURSIVE GCD(_, _)
GCD(a, b) == IF b = 0 THEN a ELSE GCD(b, a % b)

Rat(n, d) ==
    IF n = 0 THEN <<0, 1>>
    ELSE LET s == IF d < 0 THEN -1 ELSE 1
             g == GCD(Abs(n), Abs(d))
         IN  <<(s * n) \div g, (s * d) \div g>>

Zero == Rat(0, 1)

One == Rat(1, 1)

(* sums over the least common denominator, to keep the integers small *)
RAdd(a, b) ==
    LET g == GCD(a[2], b[2])
    IN  Rat(a[1] * (b[2] \div g) + b[1] * (a[2] \div g), (a[2] \div g) * b[2])

RSub(a, b) ==
    LET g == GCD(a[2], b[2])
    IN  Rat(a[1] * (b[2] \div g) - b[1] * (a[2] \div g), (a[2] \div g) * b[2])

RMul(a, b) == Rat(a[1] * b[1], a[2] * b[2])

RDiv(a, b) == Rat(a[1] * b[2], a[2] * b[1])

RLe(a, b) == a[1] * b[2] <= b[1] * a[2]

RLt(a, b) == a[1] * b[2] < b[1] * a[2]

RECURSIVE ISqrtBetween(_, _, _)
(* the largest r in lo..hi with r*r <= n, given lo*lo <= n < (hi+1)*(hi+1) *)
ISqrtBetween(n, lo, hi) ==
    IF lo >= hi THEN lo
    ELSE LET mid == (lo + hi + 1) \div 2
         IN  IF mid * mid <= n THEN ISqrtBetween(n, mid, hi)
             ELSE ISqrtBetween(n, lo, mid - 1)

(* np.sqrt of a non-negative integer, rounded down to 1/SqrtPrecision *)
Sqrt(n) ==
    LET m == n * SqrtPrecision * SqrtPrecision
    IN  Rat(ISqrtBetween(m, 0, (n \div 2 + 1) * SqrtPrecision), SqrtPrecision)

RECURSIVE SumTo(_, _)
SumTo(f, n) == IF n = 0 THEN 0 ELSE f[n] + SumTo(f, n - 1)

RECURSIVE RSumTo(_, _)
RSumTo(f, n) == IF n = 0 THEN Zero ELSE RAdd(f[n], RSumTo(f, n - 1))

Dot(a, b) == SumTo([i \in 1..Len(a) |-> a[i] * b[i]], Len(a))

RECURSIVE Array(_, _)
(* the array of the n values f[1..n], each computed once *)
Array(f, n) == IF n = 0 THEN <<>> ELSE Append(Array(f, n - 1), f[n])

(***************************************************************************)
(* sklearn.metrics.pairwise: cosine_similarity normalises both vectors     *)
(* (a zero norm is replaced by 1, so a zero vector stays zero and scores   *)
(* 0) and takes the dot product; euclidean_distances is                    *)
(* sqrt(max(0, x.x - 2 x.y + y.y)).                                        *)
(***************************************************************************)
Normalize(v) ==
    LET norm == Sqrt(Dot(v, v))
    IN  Array([i \in 1..Len(v) |->
                  IF norm = Zero THEN Rat(v[i], 1) ELSE RDiv(Rat(v[i], 1), norm)],
              Len(v))

CosineSimilarity(a, b) ==
    LET na == Normalize(a)
        nb == Normalize(b)
    IN  RSumTo([i \in 1..Len(a) |-> RMul(na[i], nb[i])], Len(a))

EuclideanDistance(a, b) ==
    Sqrt(Max(0, Dot(a, a) - 2 * Dot(a, b) + Dot(b, b)))

(***************************************************************************)
(* numpy: argsort (ascending; the default kind is not stable, so every     *)
(* ascending order of equal keys is a possible outcome), argmax (the first *)
(* occurrence of the maximum), [::-1] and [:k].                            *)
(***************************************************************************)
Perms(n) ==
    {p \in [1..n -> 1..n] : \A i, j \in 1..n : i # j => p[i] # p[j]}

ArgsortResults(scores) ==
    {p \in Perms(Len(scores)) :
        \A i \in 1..(Len(scores) - 1) : RLe(scores[p[i]], scores[p[i + 1]])}

Reverse(s) == [i \in 1..Len(s) |-> s[Len(s) + 1 - i]]

Slice(s, k) ==
    IF k >= 0 THEN SubSeq(s, 1, Min(k, Len(s)))
    ELSE SubSeq(s, 1, Max(Len(s) + k, 0))

ArgmaxLast(scores) ==
    CHOOSE i \in 1..Len(scores) :
        /\ \A j \in 1..Len(scores) : RLe(scores[j], scores[i])
        /\ \A j \in (i + 1)..Len(scores) : RLt(scores[j], scores[i])

Argmax(scores) ==
    CHOOSE i \in 1..Len(scores) :
        /\ \A j \in 1..Len(scores) : RLe(scores[j], scores[i])
        /\ \A j \in 1..(i - 1) : RLt(scores[j], scores[i])

(***************************************************************************)
(* Python str: lower(), split() (on runs of whitespace, no empty words)    *)
(* and the substring test `e in q`.                                        *)
(***************************************************************************)
LowerChar(c) ==
    CASE c = "T" -> "t"
      [] c = "A" -> "a"
      [] c = "X" -> "x"
      [] c = "G" -> "g"
      [] c = "S" -> "s"
      [] c = "C" -> "c"
      [] OTHER -> c

Lower(s) == [i \in 1..Len(s) |-> LowerChar(s[i])]

IsSpace(c) == c = " "

RECURSIVE SplitFrom(_, _, _, _)
SplitFrom(s, i, word, acc) ==
    IF i > Len(s) THEN (IF word = <<>> THEN acc ELSE Append(acc, word))
    ELSE IF IsSpace(s[i])
         THEN SplitFrom(s, i + 1, <<>>,
                        IF word = <<>> THEN acc ELSE Append(acc, word))
         ELSE SplitFrom(s, i + 1, Append(word, s[i]), acc)

Split(s) == SplitFrom(s, 1, <<>>, <<>>)

IsSubstring(e, q) ==
    \E i \in 0..(Len(q) - Len(e)) : SubSeq(q, i + 1, i + Len(e)) = e

Range(s) == {s[i] : i \in 1..Len(s)}

(***************************************************************************)
(* SimilarityMethods._calculate_entity_match_scores, for one document.     *)
(***************************************************************************)
ExactMatch(query_lower, entity) ==
    IF IsSubstring(Lower(entity), query_lower) THEN One ELSE Zero

PartialMatchUnlessExact(query_lower, entity) ==
    LET entity_words == Split(Lower(entity))
        query_words == Split(query_lower)
        overlap == Cardinality(Range(entity_words) \cap Range(query_words))
    IN  IF overlap > 0 /\ ~IsSubstring(Lower(entity), query_lower)
        THEN Rat(overlap, Len(entity_words)) ELSE Zero

PartialMatch(query_lower, entity) ==
    LET entity_words == Split(Lower(entity))
        query_words == Split(query_lower)
        overlap == Cardinality(Range(entity_words) \cap Range(query_words))
    IN  IF overlap > 0 THEN Rat(overlap, Len(entity_words)) ELSE Zero

NotNormalized(score, entities) == score

NormalizeByEntities(score, entities) ==
    IF Len(entities) > 0 THEN RDiv(score, Rat(Len(entities), 1)) ELSE score

EntityMatchScore(query, entities) ==
    LET query_lower == Lower(query)
        exact == RSumTo([i \in 1..Len(entities) |->
                            ExactMatch(query_lower, entities[i])], Len(entities))
        partial == RSumTo([i \in 1..Len(entities) |->
                            PartialMatch(query_lower, entities[i])], Len(entities))
    IN  NormalizeByEntities(RAdd(exact, partial), entities)

(* doc.get('entities', []) *)
EntitiesOf(doc) == IF "entities" \in DOMAIN doc THEN doc.entities ELSE <<>>

calculate_entity_match_scores(query, docs) ==
    Array([i \in 1..Len(docs) |-> EntityMatchScore(query, EntitiesOf(docs[i]))],
          Len(docs))

(***************************************************************************)
(* Configuration constants (config.py) and the literals the code uses.     *)
(***************************************************************************)
MMR_LAMBDA == Rat(7, 10)

HYBRID_COSINE_WEIGHT == Rat(6, 10)

HYBRID_ENTITY_WEIGHT == Rat(4, 10)

(* the constants of config.py as one run has them *)
DefaultConfig ==
    [HYBRID_COSINE_WEIGHT |-> HYBRID_COSINE_WEIGHT,
     HYBRID_ENTITY_WEIGHT |-> HYBRID_ENTITY_WEIGHT]

(***************************************************************************)
(* The ranking methods of SimilarityMethods.  `order` is the outcome of    *)
(* np.argsort on the method's scores.  A result is the copied document     *)
(* with the method's keys added.                                           *)
(***************************************************************************)
Similarities(query_embedding, embeddings) ==
    Array([i \in 1..Len(embeddings) |->
              CosineSimilarity(query_embedding, embeddings[i])], Len(embeddings))

TopIndicesOneShort(order, top_k) == Slice(Reverse(order), top_k - 1)

TopIndicesAscending(order, top_k) == Slice(order, top_k)

TopIndices(order, top_k) == Slice(Reverse(order), top_k)

WithScore(doc, score, method) ==
    [k \in (DOMAIN doc) \cup {"similarity_score", "method"} |->
        IF k = "similarity_score" THEN score
        ELSE IF k = "method" THEN method
        ELSE doc[k]]

cosine_similarity_search(query_embedding, embeddings, docs, top_k, order) ==
    LET similarities == Similarities(query_embedding, embeddings)
        top_indices == TopIndices(order, top_k)
    IN  [i \in 1..Len(top_indices) |->
            WithScore(docs[top_indices[i]], similarities[top_indices[i]],
                      "Cosine Similarity")]

EuclideanSimilaritiesNegatedDistance(query_embedding, embeddings) ==
    Array([i \in 1..Len(embeddings) |->
              RSub(Zero, EuclideanDistance(query_embedding, embeddings[i]))],
          Len(embeddings))

EuclideanSimilarities(query_embedding, embeddings) ==
    Array([i \in 1..Len(embeddings) |->
              RDiv(One, RAdd(One, EuclideanDistance(query_embedding, embeddings[i])))],
          Len(embeddings))

euclidean_distance_search(query_embedding, embeddings, docs, top_k, order) ==
    LET similarities == EuclideanSimilarities(query_embedding, embeddings)
        top_indices == TopIndices(order, top_k)
    IN  [i \in 1..Len(top_indices) |->
            WithScore(docs[top_indices[i]], similarities[top_indices[i]],
                      "Euclidean Distance")]

(* list.remove(x): the list without the first occurrence of x *)
RemoveNothing(s, x) == s

Remove(s, x) ==
    LET at == CHOOSE i \in 1..Len(s) : s[i] = x /\ \A j \in 1..(i - 1) : s[j] # x
    IN  SubSeq(s, 1, at - 1) \o SubSeq(s, at + 1, Len(s))

Redundancy(embeddings, idx, selected_indices) ==
    IF Len(selected_indices) = 0 THEN Zero
    ELSE LET doc_similarities ==
                 Array([j \in 1..Len(selected_indices) |->
                           CosineSimilarity(embeddings[idx],
                                            embeddings[selected_indices[j]])],
                       Len(selected_indices))
         IN  doc_similarities[Argmax(doc_similarities)]

MmrScore(similarities, embeddings, idx, selected_indices, lambda_param) ==
    RSub(RMul(lambda_param, similarities[idx]),
         RMul(RSub(One, lambda_param),
              Redundancy(embeddings, idx, selected_indices)))

RECURSIVE MmrLoop(_, _, _, _, _, _)
MmrLoop(similarities, embeddings, selected_indices, remaining_indices, lambda_param, steps) ==
    IF steps <= 0 THEN selected_indices
    ELSE LET mmr_scores ==
                 Array([r \in 1..Len(remaining_indices) |->
                           MmrScore(similarities, embeddings, remaining_indices[r],
                                    selected_indices, lambda_param)],
                       Len(remaining_indices))
             best_idx == remaining_indices[Argmax(mmr_scores)]
         IN  MmrLoop(similarities, embeddings,
                     Append(selected_indices, best_idx),
                     Remove(remaining_indices, best_idx),
                     lambda_param, steps - 1)

MmrSelectedFromFirstDoc(similarities, embeddings, n, top_k, lambda_param) ==
    LET first_idx == 1
        remaining_indices == Remove([i \in 1..n |-> i], first_idx)
    IN  MmrLoop(similarities, embeddings, <<first_idx>>, remaining_indices,
                lambda_param, Min(top_k - 1, Len(remaining_indices)))

MmrSelected(similarities, embeddings, n, top_k, lambda_param) ==
    LET first_idx == Argmax(similarities)
        remaining_indices == Remove([i \in 1..n |-> i], first_idx)
    IN  MmrLoop(similarities, embeddings, <<first_idx>>, remaining_indices,
                lambda_param, Min(top_k - 1, Len(remaining_indices)))

mmr_search(query_embedding, embeddings, docs, top_k, lambda_param) ==
    LET similarities == Similarities(query_embedding, embeddings)
        selected_indices ==
            MmrSelected(similarities, embeddings, Len(docs), top_k, lambda_param)
    IN  [i \in 1..Len(selected_indices) |->
            WithScore(docs[selected_indices[i]],
                      similarities[selected_indices[i]], "MMR")]

HybridScoresSwappedWeights(cosine_scores, entity_scores) ==
    Array([i \in 1..Len(cosine_scores) |->
              RAdd(RMul(Rat(4, 10), cosine_scores[i]),
                   RMul(Rat(6, 10), entity_scores[i]))], Len(cosine_scores))

HybridScores(cosine_scores, entity_scores) ==
    Array([i \in 1..Len(cosine_scores) |->
              RAdd(RMul(Rat(6, 10), cosine_scores[i]),
                   RMul(Rat(4, 10), entity_scores[i]))], Len(cosine_scores))

WithHybridScores(doc, hybrid, cosine, entity) ==
    [k \in (DOMAIN doc) \cup
           {"similarity_score", "cosine_score", "entity_score", "method"} |->
        CASE k = "similarity_score" -> hybrid
          [] k = "cosine_score" -> cosine
          [] k = "entity_score" -> entity
          [] k = "method" -> "Hybrid Similarity"
          [] OTHER -> doc[k]]

hybrid_similarity_search(query, query_embedding, embeddings, docs, top_k, order) ==
    LET cosine_scores == Similarities(query_embedding, embeddings)
        entity_scores == calculate_entity_match_scores(query, docs)
        hybrid_scores == HybridScores(cosine_scores, entity_scores)
        top_indices == TopIndices(order, top_k)
    IN  [i \in 1..Len(top_indices) |->
            WithHybridScores(docs[top_indices[i]],
                             hybrid_scores[top_indices[i]],
                             cosine_scores[top_indices[i]],
                             entity_scores[top_indices[i]])]

(***************************************************************************)
(* Inputs.  Texts are sequences of characters.  The embedding model is an  *)
(* opaque function from a text to a vector; Encode is its table on the     *)
(* contents used here (two documents share one content, so their rows are  *)
(* equal, as when the same text is added twice).                           *)
(***************************************************************************)
S_tax == <<"t", "a", "x">>

S_Tax == <<"T", "a", "x">>

S_ta == <<"t", "a">>

S_gst_act == <<"g", "s", "t", " ", "a", "c", "t">>

S_Act_GST == <<"A", "c", "t", " ", "G", "S", "T">>

S_tax_tax == <<"t", "a", "x", " ", "t", "a", "x">>

S_gst_act_tax == <<"g", "s", "t", " ", "a", "c", "t", " ", "t", "a", "x">>

S_empty == <<>>

S_space == <<" ">>

QueryTexts == {S_tax, S_Act_GST, S_gst_act_tax, S_tax_tax, S_empty}

EntityVocab == {S_tax, S_Tax, S_ta, S_gst_act, S_tax_tax, S_empty, S_space}

(* DocumentProcessor.get_query_embedding: the model's vector of a query *)
get_query_embedding(query) ==
    CASE query = S_tax -> <<5, 0>>
      [] query = S_tax_tax -> <<5, 0>>
      [] query = S_Act_GST -> <<3, 4>>
      [] query = S_gst_act_tax -> <<3, 4>>
      [] OTHER -> <<-5, 0>>

QueryEmbeddings == {get_query_embedding(t) : t \in QueryTexts}

Encode(content) ==
    CASE content = "advance tax" -> <<4, 3>>
      [] content = "supply of goods" -> <<3, -4>>
      [] content = "contract of sale" -> <<8, 6>>
      [] OTHER -> <<0, 0>>

Pool ==
    { [id |-> "income_tax_1", category |-> "Income Tax",
       content |-> "advance tax", entities |-> <<S_tax, S_gst_act>>],
      [id |-> "custom_10", category |-> "Income Tax",
       content |-> "advance tax", entities |-> <<>>],
      [id |-> "gst_1", category |-> "GST",
       content |-> "supply of goods", entities |-> <<S_gst_act>>],
      [id |-> "property_law_1", category |-> "Property Law",
       content |-> "contract of sale", entities |-> <<S_Tax, S_tax_tax>>] }

TopKs == (-1)..MaxTopK

Lambdas == {Rat(7, 10), One}

InjectiveSeqs(S, n) ==
    UNION { {s \in [1..m -> S] : \A i, j \in 1..m : i # j => s[i] # s[j]}
            : m \in 0..n }

Corpora == InjectiveSeqs(Pool, MaxDocs)

EmbeddingsOfAllButLast(docs) ==
    [i \in 1..(Len(docs) - 1) |-> Encode(docs[i].content)]

EmbeddingsOf(docs) == [i \in 1..Len(docs) |-> Encode(docs[i].content)]

Returned(value) == [raised |-> "", value |-> value]

Raised(error) == [raised |-> error, value |-> <<>>]

(* an embedding of another dimension than the corpus matrix *)
WrongDimensionEmbedding == <<5>>

DirectQueryEmbeddings == QueryEmbeddings \cup {WrongDimensionEmbedding}

(* a direct call passes the documents and their matrix as arguments;       *)
(* has_embeddings is FALSE when DocumentProcessor.embeddings is None, and  *)
(* doc_embeddings is then the empty sequence                               *)
Init ==
    /\ documents \in Corpora
    /\ doc_embeddings = EmbeddingsOf(documents)
    /\ has_embeddings = TRUE
    /\ is_initialized = FALSE
    /\ config = DefaultConfig
    /\ call = [op |-> "none"]
    /\ out = Returned(<<>>)

(***************************************************************************)
(* One action per ranking method: a direct call on the corpus, made by a   *)
(* caller that is idle; `call` holds the arguments and `out` the outcome   *)
(* until the caller takes it (Return).  sklearn's pairwise functions       *)
(* reject an array with no rows, and two arrays whose numbers of columns   *)
(* differ (ValueError).                                                    *)
(***************************************************************************)
Idle == call.op = "none"

Return ==
    /\ ~Idle
    /\ call' = [op |-> "none"]
    /\ out' = Returned(<<>>)
    /\ UNCHANGED <<documents, doc_embeddings, has_embeddings, is_initialized, config>>

PairwiseValueErrorNoRowsOnly(query_embedding, embeddings) ==
    Len(embeddings) = 0

PairwiseValueError(query_embedding, embeddings) ==
    \/ Len(embeddings) = 0
    \/ Len(query_embedding) # Len(embeddings[1])

StoredDocumentsTaggedInPlace(docs, results) ==
    [i \in 1..Len(docs) |->
        IF \E j \in 1..Len(results) : results[j].id = docs[i].id
        THEN results[CHOOSE j \in 1..Len(results) : results[j].id = docs[i].id]
        ELSE docs[i]]

(* doc = documents[idx].copy(): the score keys are set on the copy, the    *)
(* stored documents are as they were                                       *)
StoredDocuments(docs, results) == docs

CosineSearch ==
    /\ Idle
    /\ \E q \in DirectQueryEmbeddings, k \in TopKs :
        /\ call' = [op |-> "cosine", query_embedding |-> q, top_k |-> k]
        /\ IF PairwiseValueError(q, doc_embeddings)
           THEN out' = Raised("ValueError") /\ UNCHANGED documents
           ELSE \E order \in ArgsortResults(Similarities(q, doc_embeddings)) :
                    LET results == cosine_similarity_search(
                                       q, doc_embeddings, documents, k, order)
                    IN  /\ out' = Returned(results)
                        /\ documents' = StoredDocuments(documents, results)
        /\ UNCHANGED <<doc_embeddings, has_embeddings, is_initialized, config>>

EuclideanSearch ==
    /\ Idle
    /\ \E q \in DirectQueryEmbeddings, k \in TopKs :
        /\ call' = [op |-> "euclidean", query_embedding |-> q, top_k |-> k]
        /\ IF PairwiseValueError(q, doc_embeddings)
           THEN out' = Raised("ValueError") /\ UNCHANGED documents
           ELSE \E order \in ArgsortResults(EuclideanSimilarities(q, doc_embeddings)) :
                    LET results == euclidean_distance_search(
                                       q, doc_embeddings, documents, k, order)
                    IN  /\ out' = Returned(results)
                        /\ documents' = StoredDocuments(documents, results)
        /\ UNCHANGED <<doc_embeddings, has_embeddings, is_initialized, config>>

MmrSearch ==
    /\ Idle
    /\ \E q \in DirectQueryEmbeddings, k \in TopKs, l \in Lambdas :
        /\ call' = [op |-> "mmr", query_embedding |-> q, top_k |-> k,
                    lambda_param |-> l]
        /\ IF PairwiseValueError(q, doc_embeddings)
           THEN out' = Raised("ValueError") /\ UNCHANGED documents
           ELSE LET results == mmr_search(q, doc_embeddings, documents, k, l)
                IN  /\ out' = Returned(results)
                    /\ documents' = StoredDocuments(documents, results)
        /\ UNCHANGED <<doc_embeddings, has_embeddings, is_initialized, config>>

HybridSearch ==
    /\ Idle
    /\ \E t \in QueryTexts, k \in TopKs :
        \E q \in {get_query_embedding(t), WrongDimensionEmbedding} :
            /\ call' = [op |-> "hybrid", query |-> t, query_embedding |-> q,
                        top_k |-> k]
            /\ IF PairwiseValueError(q, doc_embeddings)
               THEN out' = Raised("ValueError") /\ UNCHANGED documents
               ELSE \E order \in ArgsortResults(
                            HybridScores(Similarities(q, doc_embeddings),
                                         calculate_entity_match_scores(t, documents))) :
                        LET results == hybrid_similarity_search(
                                           t, q, doc_embeddings, documents, k, order)
                        IN  /\ out' = Returned(results)
                            /\ documents' = StoredDocuments(documents, results)
            /\ UNCHANGED <<doc_embeddings, has_embeddings, is_initialized, config>>

Next ==
    \/ CosineSearch
    \/ EuclideanSearch
    \/ MmrSearch
    \/ HybridSearch
    \/ Return

Spec == Init /\ [][Next]_vars

(***************************************************************************)
(* Properties of the ranking methods (specification Spec).                 *)
(***************************************************************************)
RankingOps == {"cosine", "euclidean", "mmr", "hybrid"}

SortedOps == {"cosine", "euclidean", "hybrid"}

(* the call in `call` is a ranking call on a non-empty corpus with top_k >= 1 *)
RankedCall(ops) ==
    /\ call.op \in ops
    /\ Len(documents) >= 1
    /\ Len(call.query_embedding) = Len(doc_embeddings[1])
    /\ call.top_k >= 1

IndexOfId(id) == CHOOSE i \in 1..Len(documents) : documents[i].id = id

ResultIndices == [i \in 1..Len(out.value) |-> IndexOfId(out.value[i].id)]

NonIncreasing(results) ==
    \A i \in 1..(Len(results) - 1) :
        RLe(results[i + 1].similarity_score, results[i].similarity_score)

(* the scores the method of the current call ranks by, per corpus index *)
MethodScores ==
    CASE call.op = "euclidean" ->
            EuclideanSimilarities(call.query_embedding, doc_embeddings)
      [] call.op = "hybrid" ->
            HybridScores(Similarities(call.query_embedding, doc_embeddings),
                         calculate_entity_match_scores(call.query, documents))
      [] OTHER -> Similarities(call.query_embedding, doc_embeddings)

(* C1: on a non-empty corpus of N documents and top_k >= 1, each of the four
   ranking methods returns exactly min(top_k, N) results. *)
C1_ResultCount ==
    RankedCall(RankingOps) =>
        /\ out.raised = ""
        /\ Len(out.value) = Min(call.top_k, Len(documents))

C1_Witness ==
    /\ RankedCall({"mmr"})
    /\ call.top_k > Len(documents)
    /\ Len(documents) = MaxDocs
    /\ Len(out.value) = Len(documents)

(* C2: the lists returned by the cosine, euclidean and hybrid searches are
   sorted by similarity_score, non-increasing. *)
C2_SortedNonIncreasing ==
    RankedCall(SortedOps) => NonIncreasing(out.value)

C2_Witness ==
    /\ RankedCall({"hybrid"})
    /\ Len(out.value) >= 3
    /\ RLt(out.value[2].similarity_score, out.value[1].similarity_score)
    /\ RLt(out.value[3].similarity_score, out.value[2].similarity_score)

C4_TiesByCorpusOrder ==
    RankedCall(SortedOps) =>
        /\ \A i, j \in 1..Len(out.value) :
               (i < j /\ out.value[i].similarity_score = out.value[j].similarity_score)
                   => ResultIndices[i] < ResultIndices[j]
        /\ \A i \in 1..Len(out.value) :
               \A d \in 1..Len(documents) :
                   (d \notin Range(ResultIndices)
                        /\ MethodScores[d] = out.value[i].similarity_score)
                       => ResultIndices[i] < d

(* C5: the first result of mmr_search is the same document as the first
   result of cosine_similarity_search on the same inputs. *)
C5_MmrFirstIsCosineFirst ==
    RankedCall({"cosine"}) =>
        out.value[1].id =
            mmr_search(call.query_embedding, doc_embeddings, documents,
                       call.top_k, Rat(7, 10))[1].id

(* C6: mmr_search with lambda_param = 1.0 returns the same documents in the
   same order with the same similarity_score values as
   cosine_similarity_search on the same inputs. *)
C6_MmrLambdaOneIsCosine ==
    RankedCall({"cosine"}) =>
        LET mmr == mmr_search(call.query_embedding, doc_embeddings, documents,
                              call.top_k, One)
        IN  /\ Len(mmr) = Len(out.value)
            /\ \A i \in 1..Len(out.value) :
                   /\ mmr[i].id = out.value[i].id
                   /\ mmr[i].similarity_score = out.value[i].similarity_score

(* C7: every hybrid result has similarity_score = 0.6 * cosine_score +
   0.4 * entity_score, and its cosine_score and entity_score are the cosine
   similarity and the entity-match score of that same document. *)
C7_HybridScoreDecomposition ==
    (call.op = "hybrid" /\ out.raised = "") =>
        \A i \in 1..Len(out.value) :
            LET r == out.value[i]
            IN  /\ r.similarity_score =
                       RAdd(RMul(Rat(6, 10), r.cosine_score),
                            RMul(Rat(4, 10), r.entity_score))
                /\ r.cosine_score =
                       CosineSimilarity(call.query_embedding,
                                        doc_embeddings[IndexOfId(r.id)])
                /\ r.entity_score = EntityMatchScore(call.query, r.entities)

C7_Witness ==
    /\ call.op = "hybrid"
    /\ Len(out.value) >= 2
    /\ \E i \in 1..Len(out.value) :
           /\ RLt(Zero, out.value[i].cosine_score)
           /\ RLt(One, out.value[i].entity_score)
           /\ out.value[i].similarity_score # out.value[i].cosine_score

(***************************************************************************)
(* The entity matcher on its own (specification SpecEntity): one document  *)
(* with every entity list up to MaxEntities, or without the key.           *)
(***************************************************************************)
EntityLists == UNION {[1..m -> EntityVocab] : m \in 0..MaxEntities}

EntityDocs ==
    { [id |-> "custom_0", category |-> "Custom", content |-> "advance tax",
       entities |-> es] : es \in EntityLists }
    \cup { [id |-> "custom_0", category |-> "Custom", content |-> "advance tax"] }

InitEntity ==
    /\ documents \in {<<d>> : d \in EntityDocs}
    /\ doc_embeddings = EmbeddingsOf(documents)
    /\ has_embeddings = TRUE
    /\ is_initialized = FALSE
    /\ config = DefaultConfig
    /\ call = [op |-> "none"]
    /\ out = Returned(<<>>)

EntityMatchScores ==
    /\ Idle
    /\ \E t \in QueryTexts :
        /\ call' = [op |-> "entity_match", query |-> t]
        /\ out' = Returned(calculate_entity_match_scores(t, documents))
        /\ UNCHANGED <<documents, doc_embeddings, has_embeddings, is_initialized, config>>

NextEntity ==
    \/ EntityMatchScores
    \/ Return

SpecEntity == InitEntity /\ [][NextEntity]_vars

(* C8 as stated: the entity-match score of a document lies in [0,1]. *)
C8_EntityScoreInUnitInterval ==
    call.op = "entity_match" =>
        \A i \in 1..Len(out.value) :
            RLe(Zero, out.value[i]) /\ RLe(out.value[i], One)

(* C8 amended: the entity-match score of a document lies in [0,2]; it
   exceeds 1 when entities match both as a substring and by word overlap. *)
C8_EntityScoreAtMostTwo ==
    call.op = "entity_match" =>
        \A i \in 1..Len(out.value) :
            RLe(Zero, out.value[i]) /\ RLe(out.value[i], Rat(2, 1))

C8_Witness ==
    /\ call.op = "entity_match"
    /\ Len(EntitiesOf(documents[1])) = 2
    /\ out.value[1] = Rat(2, 1)

(***************************************************************************)
(* The evaluation metrics of SimilarityMethods.  A relevance judgment is a *)
(* list of categories used only for membership, hence a set.               *)
(***************************************************************************)
RelevantCount(docs, relevant_categories) ==
    Cardinality({i \in 1..Len(docs) : docs[i].category \in relevant_categories})

PrecisionDenominatorK(k, top_k_results) == k

PrecisionDenominator(k, top_k_results) == Min(k, Len(top_k_results))

calculate_precision_at_k(results, relevant_categories, k) ==
    IF Len(results) = 0 THEN Returned(Zero)
    ELSE LET top_k_results == Slice(results, k)
             relevant_count == RelevantCount(top_k_results, relevant_categories)
             denominator == PrecisionDenominator(k, top_k_results)
         IN  IF denominator = 0 THEN Raised("ZeroDivisionError")
             ELSE Returned(Rat(relevant_count, denominator))

TotalRelevantAllDocuments(all_documents, relevant_categories) ==
    Len(all_documents)

TotalRelevant(all_documents, relevant_categories) ==
    RelevantCount(all_documents, relevant_categories)

RecallWithoutZeroGuard(results, all_documents, relevant_categories, k) ==
    IF Len(results) = 0 THEN Returned(Zero)
    ELSE LET total_relevant == TotalRelevant(all_documents, relevant_categories)
             relevant_retrieved ==
                 RelevantCount(Slice(results, k), relevant_categories)
         IN  IF total_relevant = 0 THEN Raised("ZeroDivisionError")
             ELSE Returned(Rat(relevant_retrieved, total_relevant))

calculate_recall_at_k(results, all_documents, relevant_categories, k) ==
    IF Len(results) = 0 THEN Returned(Zero)
    ELSE LET total_relevant == TotalRelevant(all_documents, relevant_categories)
         IN  IF total_relevant = 0 THEN Returned(Zero)
             ELSE LET top_k_results == Slice(results, k)
                      relevant_retrieved ==
                          RelevantCount(top_k_results, relevant_categories)
                  IN  Returned(Rat(relevant_retrieved, total_relevant))

UniqueCategoriesWithDuplicates(results) == Len(results)

UniqueCategories(results) ==
    Cardinality({results[i].category : i \in 1..Len(results)})

calculate_diversity_score(results) ==
    IF Len(results) < 2 THEN Returned(One)
    ELSE Returned(Rat(UniqueCategories(results), Len(results)))

F1ArithmeticMean(precision, recall) ==
    RDiv(RAdd(precision, recall), Rat(2, 1))

(* evaluate_methods: 2 * (precision * recall) / (precision + recall)
   if (precision + recall) > 0 else 0 *)
F1Score(precision, recall) ==
    IF RLt(Zero, RAdd(precision, recall))
    THEN RDiv(RMul(Rat(2, 1), RMul(precision, recall)), RAdd(precision, recall))
    ELSE Zero

(***************************************************************************)
(* The metrics on their own (specification SpecEval): a corpus, and as the *)
(* ranked list any list of distinct documents of it.                       *)
(***************************************************************************)
RelevantSets ==
    { {}, {"Income Tax"}, {"GST"}, {"Income Tax", "GST"}, {"Court Judgment"} }

RankedLists(docs) == InjectiveSeqs(Range(docs), Len(docs))

PrecisionAtK ==
    /\ Idle
    /\ \E results \in RankedLists(documents), rel \in RelevantSets, k \in TopKs :
        /\ call' = [op |-> "precision", results |-> results,
                    relevant_categories |-> rel, k |-> k]
        /\ out' = calculate_precision_at_k(results, rel, k)
        /\ UNCHANGED <<documents, doc_embeddings, has_embeddings, is_initialized, config>>

RecallAtK ==
    /\ Idle
    /\ \E results \in RankedLists(documents), rel \in RelevantSets, k \in TopKs :
        /\ call' = [op |-> "recall", results |-> results,
                    relevant_categories |-> rel, k |-> k]
        /\ out' = calculate_recall_at_k(results, documents, rel, k)
        /\ UNCHANGED <<documents, doc_embeddings, has_embeddings, is_initialized, config>>

DiversityScore ==
    /\ Idle
    /\ \E results \in RankedLists(documents) :
        /\ call' = [op |-> "diversity", results |-> results]
        /\ out' = calculate_diversity_score(results)
        /\ UNCHANGED <<documents, doc_embeddings, has_embeddings, is_initialized, config>>

(* the values a precision or a recall takes on lists of up to MaxDocs *)
MetricValues ==
    {v \in {Rat(n, d) : n \in 0..MaxDocs, d \in 1..MaxDocs} : RLe(v, One)}

F1 ==
    /\ Idle
    /\ \E precision \in MetricValues, recall \in MetricValues :
        /\ call' = [op |-> "f1", precision |-> precision, recall |-> recall]
        /\ out' = Returned(F1Score(precision, recall))
        /\ UNCHANGED <<documents, doc_embeddings, has_embeddings, is_initialized, config>>

NextEval ==
    \/ PrecisionAtK
    \/ RecallAtK
    \/ DiversityScore
    \/ F1
    \/ Return

SpecEval == Init /\ [][NextEval]_vars

(* the indices of the first k results of the ranked list of the call *)
FirstK == 1..Min(call.k, Len(call.results))

RelevantInFirstK ==
    Cardinality({i \in FirstK :
                    call.results[i].category \in call.relevant_categories})

(* C9: for a non-empty ranked list and k >= 1, calculate_precision_at_k is
   (relevant results among the first k) / min(k, number of results among the
   first k); for an empty ranked list it is 0. *)
C9_PrecisionAtK ==
    call.op = "precision" =>
        /\ (Len(call.results) >= 1 /\ call.k >= 1) =>
               /\ out.raised = ""
               /\ out.value = Rat(RelevantInFirstK, Cardinality(FirstK))
        /\ Len(call.results) = 0 => (out.raised = "" /\ out.value = Zero)

C9_Witness ==
    /\ call.op = "precision"
    /\ Len(call.results) = 2
    /\ call.k > Len(call.results)
    /\ out.value = Rat(1, 2)

(* C10: calculate_recall_at_k is (relevant results among the first k) /
   (documents of the full corpus with a relevant category), and 0 for every
   ranked list when no corpus document has a relevant category. *)
C10_RecallAtK ==
    (call.op = "recall" /\ call.k >= 1) =>
        LET total == Cardinality({d \in 1..Len(documents) :
                        documents[d].category \in call.relevant_categories})
        IN  /\ out.raised = ""
            /\ total = 0 => out.value = Zero
            /\ total > 0 => out.value = Rat(RelevantInFirstK, total)

C10_Witness ==
    /\ call.op = "recall"
    /\ call.k >= 1
    /\ Len(documents) = 3
    /\ out.value = Rat(1, 2)

(* C11: calculate_diversity_score is (distinct categories in the list) /
   (results in the list), and 1.0 for an empty or single-result list; so k
   results of pairwise distinct categories score 1.0 and k results of one
   shared category score 1/k. *)
C11_DiversityScore ==
    call.op = "diversity" =>
        LET n == Len(call.results)
            cats == {call.results[i].category : i \in 1..n}
        IN  /\ out.raised = ""
            /\ n <= 1 => out.value = One
            /\ n >= 1 => out.value = Rat(Cardinality(cats), n)
            /\ (n >= 1 /\ Cardinality(cats) = n) => out.value = One
            /\ (n >= 1 /\ Cardinality(cats) = 1) => out.value = Rat(1, n)

C11_Witness ==
    /\ call.op = "diversity"
    /\ Len(call.results) = 2
    /\ call.results[1].category = call.results[2].category
    /\ out.value = Rat(1, 2)

(***************************************************************************)
(* LegalSearchEngine over its DocumentProcessor (specification             *)
(* SpecEngine).  The engine is constructed empty and uninitialised;        *)
(* initialize() loads the sample documents, add_document() appends one,    *)
(* and both regenerate the embedding matrix, which is None when the        *)
(* encoder fails.  The sample is two of the sample documents; a stored     *)
(* document is modelled by its id, category, content and entities.         *)
(***************************************************************************)
SAMPLE_DOCUMENTS ==
    << CHOOSE d \in Pool : d.id = "income_tax_1",
       CHOOSE d \in Pool : d.id = "gst_1" >>

CustomIdFixed(n) == "custom_0"

(* f"custom_{len(self.documents)}" *)
CustomId(n) ==
    CASE n = 0 -> "custom_0"
      [] n = 1 -> "custom_1"
      [] n = 2 -> "custom_2"
      [] n = 3 -> "custom_3"
      [] n = 4 -> "custom_4"
      [] OTHER -> "custom_n"

AddInputs ==
    { [content |-> "advance tax", category |-> "Income Tax"],
      [content |-> "contract of sale", category |-> "Custom"] }

NewDocument(docs, content, category, entities) ==
    [id |-> CustomId(Len(docs)), category |-> category,
     content |-> content, entities |-> entities]

InitEngine ==
    /\ documents = <<>>
    /\ doc_embeddings = <<>>
    /\ has_embeddings = FALSE
    /\ is_initialized = FALSE
    /\ config = DefaultConfig
    /\ call = [op |-> "none"]
    /\ out = Returned(<<>>)

GenerateEmbeddingsKeepsStale(docs, encoded) ==
    /\ has_embeddings' = (Len(docs) > 0 /\ (encoded \/ has_embeddings))
    /\ doc_embeddings' = IF Len(docs) > 0 /\ encoded THEN EmbeddingsOf(docs)
                         ELSE IF Len(docs) > 0 THEN doc_embeddings
                         ELSE <<>>

(* DocumentProcessor._generate_embeddings on the new documents: None for
   no documents and when the encoder raises (encoded = FALSE) *)
GenerateEmbeddings(docs, encoded) ==
    /\ has_embeddings' = (Len(docs) > 0 /\ encoded)
    /\ doc_embeddings' = IF Len(docs) > 0 /\ encoded THEN EmbeddingsOf(docs)
                         ELSE <<>>

Initialize ==
    /\ Idle
    /\ \E encoded \in BOOLEAN :
        /\ documents' = SAMPLE_DOCUMENTS
        /\ GenerateEmbeddings(SAMPLE_DOCUMENTS, encoded)
    /\ is_initialized' = TRUE
    /\ UNCHANGED config
    /\ call' = [op |-> "initialize"]
    /\ out' = Returned(TRUE)

AddDocument ==
    /\ Idle
    /\ Len(documents) < MaxDocs
    /\ \E a \in AddInputs, encoded \in BOOLEAN :
        LET docs == Append(documents,
                           NewDocument(documents, a.content, a.category, <<>>))
        IN  /\ documents' = docs
            /\ GenerateEmbeddings(docs, encoded)
            /\ call' = [op |-> "add_document", content |-> a.content,
                        category |-> a.category]
    /\ out' = Returned(TRUE)
    /\ UNCHANGED <<is_initialized, config>>

(* the uploaded files: a PDF with text, a Word document whose extracted
   text is blank (also what a failed extraction gives), a plain-text file *)
UploadedFiles ==
    { [type |-> "application/pdf", content |-> "advance tax"],
      [type |-> "application/vnd.openxmlformats-officedocument.wordprocessingml.document",
       content |-> "   "],
      [type |-> "text/plain", content |-> "supply of goods"] }

SupportedTypes ==
    { "application/pdf",
      "application/vnd.openxmlformats-officedocument.wordprocessingml.document" }

(* content.strip() *)
Strip(content) == IF content = "   " THEN "" ELSE content

(* DocumentProcessor._extract_basic_entities: the legal keywords that occur
   in the content *)
extract_basic_entities(content) ==
    CASE content = "advance tax" -> <<S_tax>>
      [] OTHER -> <<>>

(* process_uploaded_file: False and no change for an unsupported type or a
   blank text, else add_document with the extracted entities *)
ProcessUploadedFile ==
    /\ Idle
    /\ Len(documents) < MaxDocs
    /\ \E f \in UploadedFiles, encoded \in BOOLEAN :
        /\ call' = [op |-> "process_uploaded_file", type |-> f.type,
                    content |-> f.content]
        /\ IF f.type \notin SupportedTypes \/ Strip(f.content) = ""
           THEN /\ out' = Returned(FALSE)
                /\ UNCHANGED <<documents, doc_embeddings, has_embeddings>>
           ELSE LET docs == Append(documents,
                                   NewDocument(documents, f.content, "Uploaded",
                                               extract_basic_entities(f.content)))
                IN  /\ documents' = docs
                    /\ GenerateEmbeddings(docs, encoded)
                    /\ out' = Returned(TRUE)
    /\ UNCHANGED <<is_initialized, config>>

(* a dictionary is a function on its keys; {} is the one without keys *)
EmptyDict == [m \in {} |-> <<>>]

(* results = {'cosine': ..., 'euclidean': ..., 'mmr': ..., 'hybrid': ...} *)
MethodResults(cosine, euclidean, mmr, hybrid) ==
    [m \in RankingOps |->
        CASE m = "cosine" -> cosine
          [] m = "euclidean" -> euclidean
          [] m = "mmr" -> mmr
          [] OTHER -> hybrid]

(* LegalSearchEngine.search: the values it can return in the current state;
   {} when the engine is not initialised, when the query cannot be encoded,
   when there are no documents or no embeddings; else the lists of the four
   methods, mmr_search with its default lambda_param = 0.7 *)
search(query, top_k) ==
    IF ~is_initialized THEN {EmptyDict}
    ELSE IF Len(documents) = 0 \/ ~has_embeddings THEN {EmptyDict}
    ELSE LET q == get_query_embedding(query)
             cosine ==
                 { cosine_similarity_search(q, doc_embeddings, documents, top_k, o) :
                     o \in ArgsortResults(Similarities(q, doc_embeddings)) }
             euclidean ==
                 { euclidean_distance_search(q, doc_embeddings, documents, top_k, o) :
                     o \in ArgsortResults(EuclideanSimilarities(q, doc_embeddings)) }
             mmr == mmr_search(q, doc_embeddings, documents, top_k, Rat(7, 10))
             hybrid ==
                 { hybrid_similarity_search(query, q, doc_embeddings, documents,
                                            top_k, o) :
                     o \in ArgsortResults(
                              HybridScores(Similarities(q, doc_embeddings),
                                           calculate_entity_match_scores(query, documents))) }
         IN  {EmptyDict} \cup
             { MethodResults(c, e, mmr, h) :
                 c \in cosine, e \in euclidean, h \in hybrid }

(* the stored documents after the four methods have built their lists *)
StoredAfterSearch(docs, results) ==
    IF DOMAIN results = {} THEN docs
    ELSE StoredDocuments(
             StoredDocuments(
                 StoredDocuments(
                     StoredDocuments(docs, results["cosine"]),
                     results["euclidean"]),
                 results["mmr"]),
             results["hybrid"])

Search ==
    /\ Idle
    /\ \E t \in QueryTexts, k \in TopKs :
        \E results \in search(t, k) :
            /\ call' = [op |-> "search", query |-> t, top_k |-> k]
            /\ out' = Returned(results)
            /\ documents' = StoredAfterSearch(documents, results)
    /\ UNCHANGED <<doc_embeddings, has_embeddings, is_initialized, config>>

PrecisionRaises(results, relevant_categories, k) ==
    \E m \in DOMAIN results :
        calculate_precision_at_k(results[m], relevant_categories, k).raised # ""

ResultsCountTopK(method_results, top_k) == top_k

(* 'results_count': len(method_results) *)
ResultsCount(method_results, top_k) == Len(method_results)

MethodEvaluation(method_results, all_documents, relevant_categories, top_k) ==
    LET precision == calculate_precision_at_k(
                         method_results, relevant_categories, top_k).value
        recall == calculate_recall_at_k(
                      method_results, all_documents, relevant_categories, top_k).value
        diversity == calculate_diversity_score(method_results).value
    IN  [precision |-> precision,
         recall |-> recall,
         diversity |-> diversity,
         f1_score |-> F1Score(precision, recall),
         results_count |-> ResultsCount(method_results, top_k)]

(* LegalSearchEngine.evaluate_methods on the lists its search returned; an
   exception of a metric is not caught *)
evaluate_methods(results, all_documents, relevant_categories, top_k) ==
    IF PrecisionRaises(results, relevant_categories, top_k)
    THEN Raised("ZeroDivisionError")
    ELSE Returned([m \in DOMAIN results |->
                      MethodEvaluation(results[m], all_documents,
                                       relevant_categories, top_k)])

EvaluateMethods ==
    /\ Idle
    /\ \E t \in QueryTexts, rel \in RelevantSets, k \in TopKs :
        \E results \in search(t, k) :
            /\ call' = [op |-> "evaluate_methods", query |-> t,
                        relevant_categories |-> rel, top_k |-> k,
                        results |-> results]
            /\ documents' = StoredAfterSearch(documents, results)
            /\ out' = evaluate_methods(results, documents, rel, k)
    /\ UNCHANGED <<doc_embeddings, has_embeddings, is_initialized, config>>

AverageScoreUndivided(method_results) ==
    RSumTo([i \in 1..Len(method_results) |->
               method_results[i].similarity_score], Len(method_results))

(* sum(doc.get('similarity_score', 0) ...) / len(method_results) *)
AverageScore(method_results) ==
    RDiv(RSumTo([i \in 1..Len(method_results) |->
                    method_results[i].similarity_score], Len(method_results)),
         Rat(Len(method_results), 1))

(* the methods that get an entry: `if method_results:` *)
SummarisedMethods(results) == {m \in DOMAIN results : Len(results[m]) > 0}

(* LegalSearchEngine.get_method_comparison_summary; list(set(...)) has no
   specified order, so categories_covered is the set *)
get_method_comparison_summary(results) ==
    [m \in SummarisedMethods(results) |->
        LET method_results == results[m]
            n == Len(method_results)
        IN  [avg_similarity_score |-> AverageScore(method_results),
             categories_covered |-> {method_results[i].category : i \in 1..n},
             unique_documents |-> Cardinality({method_results[i].id : i \in 1..n}),
             total_results |-> n]]

(* the summary of the lists a search of the engine returned *)
MethodComparisonSummary ==
    /\ Idle
    /\ \E t \in QueryTexts, k \in TopKs :
        \E results \in search(t, k) :
            /\ call' = [op |-> "summary", results |-> results]
            /\ out' = Returned(get_method_comparison_summary(results))
    /\ UNCHANGED <<documents, doc_embeddings, has_embeddings, is_initialized, config>>

NextEngine ==
    \/ Initialize
    \/ AddDocument
    \/ ProcessUploadedFile
    \/ Search
    \/ EvaluateMethods
    \/ MethodComparisonSummary
    \/ Return

SpecEngine == InitEngine /\ [][NextEngine]_vars

(***************************************************************************)
(* Properties of the engine (specification SpecEngine).                    *)
(***************************************************************************)
(* the call in `call` is an evaluate_methods call that returned *)
Evaluated == call.op = "evaluate_methods" /\ out.raised = ""

(* C12: in every entry of evaluate_methods, f1_score is
   2 * precision * recall / (precision + recall) when precision + recall > 0
   and 0 otherwise, computed from that entry's precision and recall. *)
C12_F1Score ==
    Evaluated =>
        \A m \in DOMAIN out.value :
            LET e == out.value[m]
                sum == RAdd(e.precision, e.recall)
            IN  /\ RLt(Zero, sum) =>
                       RMul(e.f1_score, sum) =
                           RMul(Rat(2, 1), RMul(e.precision, e.recall))
                /\ ~RLt(Zero, sum) => e.f1_score = Zero

C12_Witness ==
    /\ Evaluated
    /\ \E m \in DOMAIN out.value :
           /\ out.value[m].precision = Rat(1, 2)
           /\ out.value[m].recall = One
           /\ out.value[m].f1_score = Rat(2, 3)
    /\ \E m \in DOMAIN out.value :
           /\ out.value[m].precision = Zero
           /\ out.value[m].recall = Zero
           /\ out.value[m].f1_score = Zero

InUnitInterval(x) == RLe(Zero, x) /\ RLe(x, One)

(* C13: in every engine state, for every query, relevance set and
   top_k >= 1, evaluate_methods returns, and each of its entries has
   precision, recall, diversity and f1_score in [0,1] and results_count equal
   to the length of the ranked list of that method. *)
C13_EvaluationRanges ==
    (call.op = "evaluate_methods" /\ call.top_k >= 1) =>
        /\ out.raised = ""
        /\ DOMAIN out.value = DOMAIN call.results
        /\ \A m \in DOMAIN out.value :
               LET e == out.value[m]
               IN  /\ InUnitInterval(e.precision)
                   /\ InUnitInterval(e.recall)
                   /\ InUnitInterval(e.diversity)
                   /\ InUnitInterval(e.f1_score)
                   /\ e.results_count = Len(call.results[m])

C13_Witness ==
    /\ Evaluated
    /\ call.top_k > Len(documents)
    /\ Len(documents) = MaxDocs
    /\ DOMAIN out.value = RankingOps
    /\ out.value["mmr"].results_count = MaxDocs
    /\ RLt(Zero, out.value["mmr"].precision)
    /\ RLt(out.value["mmr"].precision, One)
    /\ RLt(out.value["mmr"].f1_score, One)
    /\ RLt(out.value["mmr"].diversity, One)

(***************************************************************************)
(* Degenerate inputs of the metrics (specification SpecEval).              *)
(***************************************************************************)
(* no document of the corpus has a category of the relevance set *)
NoRelevantDocument ==
    \A i \in 1..Len(documents) :
        documents[i].category \notin call.relevant_categories

(* C14: on an empty ranked list, and on a relevance set that matches no
   document of the corpus (the empty set included), with k >= 1,
   calculate_precision_at_k and calculate_recall_at_k return 0.0 without
   raising; calculate_diversity_score returns 1.0 on an empty list; the F1
   computation returns 0 when precision and recall are both 0. *)
C14_DegenerateInputs ==
    /\ (call.op \in {"precision", "recall"} /\ call.k >= 1
            /\ (Len(call.results) = 0 \/ NoRelevantDocument))
           => out = Returned(Zero)
    /\ (call.op = "diversity" /\ Len(call.results) = 0) => out = Returned(One)
    /\ (call.op = "f1" /\ call.precision = Zero /\ call.recall = Zero)
           => out = Returned(Zero)

C14_Witness ==
    /\ call.op = "recall"
    /\ call.k >= 1
    /\ Len(call.results) = MaxDocs
    /\ call.relevant_categories = {}
    /\ out = Returned(Zero)

(***************************************************************************)
(* Error handling of the ranking methods (specification Spec) and of the   *)
(* engine (specification SpecEngine).                                      *)
(***************************************************************************)
(* C15: with an empty corpus every ranking method returns an empty list and
   raises no error. *)
C15_EmptyCorpusReturnsEmpty ==
    (call.op \in RankingOps /\ Len(documents) = 0) => out = Returned(<<>>)

(* C16: a ranking call with top_k < 1 fails: it raises and returns no
   ranked list. *)
C16_TopKBelowOneFails ==
    (call.op \in RankingOps /\ call.top_k < 1) => out.raised # ""

(* the query embedding of the call has another dimension than the rows of
   the embedding matrix *)
DimensionMismatch ==
    /\ call.op \in RankingOps
    /\ Len(doc_embeddings) >= 1
    /\ Len(call.query_embedding) # Len(doc_embeddings[1])

(* C17: when the dimension of the query embedding differs from that of the
   document embeddings, each ranking method raises (sklearn's ValueError for
   incompatible dimensions) and returns no ranked list. *)
C17_DimensionMismatchFails ==
    DimensionMismatch => out = Raised("ValueError")

C17_Witness ==
    /\ DimensionMismatch
    /\ call.op = "hybrid"
    /\ Len(documents) = MaxDocs
    /\ call.top_k >= 1
    /\ out.raised = "ValueError"

(* the engine is initialised and holds documents but no embedding matrix *)
MissingEmbeddings ==
    /\ is_initialized
    /\ Len(documents) > 0
    /\ ~has_embeddings

ReadOnlyOps ==
    RankingOps \cup {"search", "evaluate_methods", "summary",
                     "precision", "recall", "diversity", "f1"}

(* C20: a ranking call and an evaluation call leave the corpus as it was:
   the document list, every key and value of every stored document, and the
   embedding matrix. *)
C20_CorpusUnchanged ==
    [][call'.op \in ReadOnlyOps =>
           /\ documents' = documents
           /\ doc_embeddings' = doc_embeddings
           /\ has_embeddings' = has_embeddings]_vars

C20_Witness ==
    /\ call.op = "search"
    /\ DOMAIN out.value = RankingOps
    /\ Len(documents) = MaxDocs
    /\ Len(out.value["hybrid"]) = MaxDocs
    /\ "cosine_score" \in DOMAIN out.value["hybrid"][1]
    /\ \A i \in 1..Len(documents) :
           DOMAIN documents[i] = {"id", "category", "content", "entities"}

(***************************************************************************)
(* Further properties of the entity matcher (specification SpecEntity).    *)
(***************************************************************************)
(* the entity list of the one document of the call *)
CallEntities == EntitiesOf(documents[1])

(* entity e, case-folded, occurs verbatim in the case-folded query *)
OccursInQuery(e) == IsSubstring(Lower(e), Lower(call.query))

(* entity e and the query share a word *)
SharesWord(e) ==
    Range(Split(Lower(e))) \cap Range(Split(Lower(call.query))) # {}

(* C23: the entity-match score is 0.0 for a document without entities,
   whatever the query, and 0.0 for the empty query, whatever the entities;
   the computation does not raise. *)
C23_ZeroEntityScore ==
    call.op = "entity_match" =>
        /\ out.raised = ""
        /\ (Len(CallEntities) = 0 \/ call.query = S_empty) => out.value[1] = Zero

(* C24 as stated: an entity that occurs verbatim in the query contributes
   strictly more than 1.0 (substring bonus and word-overlap bonus); stated
   on a document with that one entity, whose score is the contribution. *)
C24_ExactMatchAboveOne ==
    (call.op = "entity_match" /\ Len(CallEntities) = 1
        /\ OccursInQuery(CallEntities[1]))
        => RLt(One, out.value[1])

(* C24 amended: an entity that occurs verbatim in the query contributes the
   substring bonus 1.0 and, on top, the word-overlap bonus, which is above 0
   only when a whole word of the entity is a word of the query; so the
   contribution is at least 1.0, and above 1.0 exactly in that case. *)
C24_ExactMatchAtLeastOne ==
    (call.op = "entity_match" /\ Len(CallEntities) >= 1) =>
        LET n == Len(CallEntities)
            total == RMul(out.value[1], Rat(n, 1))
            exact == Cardinality({i \in 1..n : OccursInQuery(CallEntities[i])})
        IN  /\ RLe(Rat(exact, 1), total)
            /\ (n = 1 /\ exact = 1) =>
                   (RLt(One, total) <=> SharesWord(CallEntities[1]))

C24_Witness ==
    /\ call.op = "entity_match"
    /\ call.query = S_tax
    /\ CallEntities = <<S_tax>>
    /\ out.value[1] = Rat(2, 1)

(* the fraction of the whitespace-split words of entity e that are words of
   the query *)
WordFraction(e) ==
    LET words == Split(Lower(e))
        query_words == Range(Split(Lower(call.query)))
    IN  IF Len(words) = 0 THEN Zero
        ELSE Rat(Cardinality({j \in 1..Len(words) : words[j] \in query_words}),
                 Len(words))

(* C28: for a non-empty entity list the entity-match score is (the number
   of entities that occur verbatim in the query + the sum over the entities
   of the fraction of the entity's words that are words of the query)
   divided by the number of entities, also for entities with repeated
   words. *)
C28_EntityScoreFormula ==
    (call.op = "entity_match" /\ Len(CallEntities) >= 1) =>
        LET n == Len(CallEntities)
            exact == Cardinality({i \in 1..n : OccursInQuery(CallEntities[i])})
            fractions == RSumTo([i \in 1..n |-> WordFraction(CallEntities[i])], n)
        IN  out.value[1] = RDiv(RAdd(Rat(exact, 1), fractions), Rat(n, 1))

(***************************************************************************)
(* Further properties of the ranking methods (specification Spec).         *)
(***************************************************************************)
(* the euclidean distance of the query of the call to document d *)
Distance(d) == EuclideanDistance(call.query_embedding, doc_embeddings[d])

(* the position of corpus index d in the returned list, 0 if not returned *)
PositionOf(d) ==
    IF \E p \in 1..Len(out.value) : ResultIndices[p] = d
    THEN CHOOSE p \in 1..Len(out.value) : ResultIndices[p] = d
    ELSE 0

(* C25: in euclidean_distance_search the score of document i is
   1 / (1 + distance(query, d_i)), in (0,1]; of two documents the nearer has
   the strictly larger score and is ranked before the farther whenever the
   farther is returned. *)
C25_EuclideanScore ==
    RankedCall({"euclidean"}) =>
        /\ \A p \in 1..Len(out.value) :
               LET score == out.value[p].similarity_score
               IN  /\ RMul(score, RAdd(One, Distance(ResultIndices[p]))) = One
                   /\ RLt(Zero, score)
                   /\ RLe(score, One)
        /\ \A i, j \in 1..Len(documents) :
               RLt(Distance(i), Distance(j)) =>
                   /\ RLt(RDiv(One, RAdd(One, Distance(j))),
                          RDiv(One, RAdd(One, Distance(i))))
                   /\ PositionOf(j) > 0 =>
                          (PositionOf(i) > 0 /\ PositionOf(i) < PositionOf(j))

C25_Witness ==
    /\ RankedCall({"euclidean"})
    /\ Len(out.value) = 2
    /\ Len(documents) = 3
    /\ \E d \in 1..Len(documents) : PositionOf(d) = 0
    /\ RLt(out.value[2].similarity_score, out.value[1].similarity_score)
    /\ RLt(out.value[1].similarity_score, One)

(* the corpus indices selected before position p of the returned list *)
SelectedBefore(p) == SubSeq(ResultIndices, 1, p - 1)

(* the MMR score of corpus index d at the step that fills position p *)
StepScore(d, p) ==
    IF p = 1 THEN Similarities(call.query_embedding, doc_embeddings)[d]
    ELSE MmrScore(Similarities(call.query_embedding, doc_embeddings),
                  doc_embeddings, d, SelectedBefore(p), call.lambda_param)

(* C27: the first pick of mmr_search has the largest cosine similarity, and
   every later pick maximises, among the documents not yet selected,
   lambda * cosine(query, doc) - (1 - lambda) * max cosine(doc, selected);
   of several documents attaining the maximum the lowest corpus index is
   picked, at the first pick and at every later one. *)
C27_MmrStep ==
    RankedCall({"mmr"}) =>
        \A p \in 1..Len(out.value) :
            \A d \in (1..Len(documents)) \ Range(SelectedBefore(p)) :
                /\ RLe(StepScore(d, p), StepScore(ResultIndices[p], p))
                /\ StepScore(d, p) = StepScore(ResultIndices[p], p)
                       => ResultIndices[p] <= d

C27_Witness ==
    /\ RankedCall({"mmr"})
    /\ Len(out.value) = 3
    /\ call.lambda_param = Rat(7, 10)
    /\ \E d \in 1..Len(documents) :
           /\ d # ResultIndices[2]
           /\ d # ResultIndices[1]
           /\ StepScore(d, 2) = StepScore(ResultIndices[2], 2)
    /\ \E d \in 1..Len(documents) :
           /\ d # ResultIndices[1]
           /\ StepScore(d, 1) = StepScore(ResultIndices[1], 1)

(***************************************************************************)
(* Further properties of the engine (specification SpecEngine).            *)
(***************************************************************************)
(* no document id occurs twice in the list *)
DistinctIds(results) ==
    \A i, j \in 1..Len(results) : i # j => results[i].id # results[j].id

(* C29: no document appears twice in a ranked list: each list of a search
   (and of a direct call of a ranking method) holds every document at most
   once, and the summary of the lists of a search reports unique_documents
   equal to total_results for every method. *)
C29_NoDuplicateResults ==
    /\ (call.op = "search" /\ out.raised = "") =>
           \A m \in DOMAIN out.value : DistinctIds(out.value[m])
    /\ (call.op \in RankingOps /\ out.raised = "") => DistinctIds(out.value)
    /\ call.op = "summary" =>
           \A m \in DOMAIN out.value :
               out.value[m].unique_documents = out.value[m].total_results

C29_Witness ==
    /\ call.op = "summary"
    /\ DOMAIN out.value = RankingOps
    /\ out.value["mmr"].total_results = MaxDocs
    /\ out.value["mmr"].unique_documents = MaxDocs
    /\ out.value["cosine"].unique_documents = MaxDocs

(* row i of the matrix is the embedding of the content of document i *)
AlignedEmbeddings ==
    /\ Len(doc_embeddings) = Len(documents)
    /\ \A i \in 1..Len(documents) :
           doc_embeddings[i] = Encode(documents[i].content)

(* C21 as stated: in every state reached by initialize, add_document and
   process_uploaded_file, also when embedding generation failed, the matrix
   has one row per document and row i is the embedding of documents[i]. *)
C21_EmbeddingsAlwaysComplete ==
    Len(documents) > 0 => (has_embeddings /\ AlignedEmbeddings)

(* C21 amended: the matrix is either absent (after a failed generation, or
   with no documents) or has one row per document with row i the embedding
   of documents[i]; a search ranks only when the matrix is present, and
   then its scores are those of the current contents. *)
C21_EmbeddingsAbsentOrAligned ==
    /\ has_embeddings => (Len(documents) > 0 /\ AlignedEmbeddings)
    /\ (call.op = "search" /\ DOMAIN out.value # {}) =>
           /\ has_embeddings
           /\ \A m \in {"cosine", "mmr"} :
                  \A p \in 1..Len(out.value[m]) :
                      out.value[m][p].similarity_score =
                          CosineSimilarity(get_query_embedding(call.query),
                                           Encode(out.value[m][p].content))

C21_Witness ==
    /\ call.op = "search"
    /\ DOMAIN out.value = RankingOps
    /\ Len(documents) = MaxDocs
    /\ Len(out.value["cosine"]) = MaxDocs
    /\ documents[MaxDocs].category = "Uploaded"
    /\ out.value["cosine"][1].category = "Uploaded"

(* C22: the ids of the stored documents are pairwise distinct in every
   state reached by initialize (also repeated), add_document and
   process_uploaded_file. *)
C22_DistinctIds == DistinctIds(documents)

C22_Witness ==
    /\ call.op = "process_uploaded_file"
    /\ is_initialized
    /\ Len(documents) = MaxDocs
    /\ documents[1].id = "income_tax_1"
    /\ documents[MaxDocs].id = CustomId(MaxDocs - 1)
    /\ documents[MaxDocs].category = "Uploaded"

(* C30: add_document and process_uploaded_file return True only if the new
   document is searchable afterwards: the matrix is present and has a row
   for it. *)
C30_TrueOnlyIfSearchable ==
    (call.op \in {"add_document", "process_uploaded_file"} /\ out.value = TRUE)
        => (has_embeddings /\ Len(doc_embeddings) = Len(documents))

(***************************************************************************)
(* Runs that differ in the hybrid weights of config.py (specification      *)
(* SpecConfig): the weights are set before the run and the hybrid search   *)
(* is called on a corpus.                                                  *)
(***************************************************************************)
Configs ==
    { DefaultConfig,
      [HYBRID_COSINE_WEIGHT |-> Rat(1, 2), HYBRID_ENTITY_WEIGHT |-> Rat(1, 2)],
      [HYBRID_COSINE_WEIGHT |-> One, HYBRID_ENTITY_WEIGHT |-> Zero] }

InitConfig ==
    /\ documents \in Corpora
    /\ doc_embeddings = EmbeddingsOf(documents)
    /\ has_embeddings = TRUE
    /\ is_initialized = FALSE
    /\ config \in Configs
    /\ call = [op |-> "none"]
    /\ out = Returned(<<>>)

NextConfig ==
    \/ HybridSearch
    \/ Return

SpecConfig == InitConfig /\ [][NextConfig]_vars

(* C26: the weights that hybrid_similarity_search fuses the cosine and the
   entity score with are the values of HYBRID_COSINE_WEIGHT and
   HYBRID_ENTITY_WEIGHT of the run. *)
C26_HybridUsesConfiguredWeights ==
    (call.op = "hybrid" /\ out.raised = "") =>
        \A p \in 1..Len(out.value) :
            out.value[p].similarity_score =
                RAdd(RMul(config.HYBRID_COSINE_WEIGHT, out.value[p].cosine_score),
                     RMul(config.HYBRID_ENTITY_WEIGHT, out.value[p].entity_score))

====
